---- MODULE Spec2Model ----
(***************************************************************************)
(* Model of the BDMEP client (joaofauvel/bdmep_api): the BDmep class of    *)
(* src/bdmep/bdmep.py with the alias table and records of                  *)
(* src/bdmep/modals.py, and available_stations of src/api.py.              *)
(*                                                                         *)
(* A Python str is a sequence of one-character strings, so that upper(),   *)
(* lower(), strip(), unidecode() and the regular expressions are computed  *)
(* character by character.                                                 *)
(***************************************************************************)
EXTENDS Integers, Sequences, FiniteSets, TLC

(***************************************************************************)
(* Bounds                                                                  *)
(***************************************************************************)
\* longest selector list handed to _parse_attrs / _parse_sts
MaxSelectors == 2
\* longest attribute catalog the remote service answers with
MaxAttrCatalog == 2
\* longest station catalog the remote service answers with for one region
MaxStCatalog == 2

(***************************************************************************)
(* Python str operations                                                   *)
(***************************************************************************)
LowerLetters == <<"a", "b", "c", "d", "e", "f", "g", "h", "i", "j", "k", "l", "m", "n", "o", "p", "q", "r", "s", "t", "u", "v", "w", "x", "y", "z">>
UpperLetters == <<"A", "B", "C", "D", "E", "F", "G", "H", "I", "J", "K", "L", "M", "N", "O", "P", "Q", "R", "S", "T", "U", "V", "W", "X", "Y", "Z">>
Digits == {"0", "1", "2", "3", "4", "5", "6", "7", "8", "9"}

Range(s) == {s[i] : i \in DOMAIN s}

\* position of character c in the sequence of characters s, 0 when absent
IndexOf(c, s) == IF \E i \in DOMAIN s : s[i] = c THEN CHOOSE i \in DOMAIN s : s[i] = c ELSE 0

\* str.upper() on one character; "a~" and "e'" stand for the letters a-tilde and e-acute
UpperChar(c) ==
    IF IndexOf(c, LowerLetters) # 0 THEN UpperLetters[IndexOf(c, LowerLetters)]
    ELSE IF c = "a~" THEN "A~"
    ELSE IF c = "e'" THEN "E'"
    ELSE c

\* str.lower() on one character
LowerChar(c) ==
    IF IndexOf(c, UpperLetters) # 0 THEN LowerLetters[IndexOf(c, UpperLetters)]
    ELSE IF c = "A~" THEN "a~"
    ELSE IF c = "E'" THEN "e'"
    ELSE c

upper(s) == [i \in DOMAIN s |-> UpperChar(s[i])]
lower(s) == [i \in DOMAIN s |-> LowerChar(s[i])]

\* unidecode.unidecode(): ASCII passes through, an accented letter becomes its base letter
UnidecodeChar(c) ==
    IF c = "a~" THEN "a"
    ELSE IF c = "A~" THEN "A"
    ELSE IF c = "e'" THEN "e"
    ELSE IF c = "E'" THEN "E"
    ELSE c

unidecode(s) == [i \in DOMAIN s |-> UnidecodeChar(s[i])]

\* str.strip(): leading and trailing blanks removed
RECURSIVE LStrip(_)
LStrip(s) == IF s # <<>> /\ Head(s) = " " THEN LStrip(Tail(s)) ELSE s

RECURSIVE RStrip(_)
RStrip(s) == IF s # <<>> /\ s[Len(s)] = " " THEN RStrip(SubSeq(s, 1, Len(s) - 1)) ELSE s

strip(s) == RStrip(LStrip(s))

\* the character classes of the regular expressions, under re.I
IsAsciiLetter(c) == IndexOf(c, LowerLetters) # 0 \/ IndexOf(c, UpperLetters) # 0
IsDigit(c) == c \in Digits
IsNameChar(c) == c = " " \/ IsAsciiLetter(c)

\* re.match(r"I\d{3}", sel, flags=re.I): matches at the start of sel
MatchAttrCode(sel) ==
    /\ Len(sel) >= 4
    /\ sel[1] \in {"I", "i"}
    /\ \A i \in 2..4 : IsDigit(sel[i])

\* re.match(r"[A-Z]\d{3}", sel, flags=re.I): matches at the start of sel
MatchStCode(sel) ==
    /\ Len(sel) >= 4
    /\ IsAsciiLetter(sel[1])
    /\ \A i \in 2..4 : IsDigit(sel[i])

\* re.match(r"^([ a-z]+)[^a-z]?([A-Z]{2})$", sel, flags=re.I): the whole of sel.
\* The greedy group 1 takes everything before the last two letters when that is
\* all letters and blanks, else everything before one separator character.
MatchCityState(sel) ==
    LET n == Len(sel)
        lastTwo == n >= 3 /\ IsAsciiLetter(sel[n - 1]) /\ IsAsciiLetter(sel[n])
        noSep == lastTwo /\ \A i \in 1..(n - 2) : IsNameChar(sel[i])
        withSep == /\ lastTwo
                   /\ n >= 4
                   /\ ~IsAsciiLetter(sel[n - 2])
                   /\ \A i \in 1..(n - 3) : IsNameChar(sel[i])
    IN  IF noSep THEN [matched |-> TRUE, group1 |-> SubSeq(sel, 1, n - 2), group2 |-> SubSeq(sel, n - 1, n)]
        ELSE IF withSep THEN [matched |-> TRUE, group1 |-> SubSeq(sel, 1, n - 3), group2 |-> SubSeq(sel, n - 1, n)]
        ELSE [matched |-> FALSE, group1 |-> <<>>, group2 |-> <<>>]

(***************************************************************************)
(* Python values                                                           *)
(***************************************************************************)
\* None, or a str
NoneStr == [isNone |-> TRUE, str |-> <<>>]
SomeStr(s) == [isNone |-> FALSE, str |-> s]

\* an element of a Python list: a str, or a nested list of str
StrItem(s) == [isList |-> FALSE, str |-> s, list |-> <<>>]
ListItem(l) == [isList |-> TRUE, str |-> <<>>, list |-> l]

\* a returned value: None, or a list of items
PyNone == [tag |-> "None", items |-> <<>>]
PyList(xs) == [tag |-> "list", items |-> xs]

\* a selector argument: the string "all", or a list of strings
AllSelector == [all |-> TRUE, list |-> <<>>]
ListSelector(l) == [all |-> FALSE, list |-> l]

\* how a call ends
Returned(v) == [kind |-> "return", value |-> v, exc |-> "", text |-> "", args |-> <<>>]
\* text is the literal text of the message, args the values interpolated into it
Raised(e, t, a) == [kind |-> "raise", value |-> PyNone, exc |-> e, text |-> t, args |-> a]

(***************************************************************************)
(* Class attributes of BDmep                                               *)
(***************************************************************************)
automatic == <<"a", "u", "t", "o", "m", "a", "t", "i", "c">>
conventional == <<"c", "o", "n", "v", "e", "n", "t", "i", "o", "n", "a", "l">>

frequencies == <<(<<"h">>), (<<"d">>), (<<"m">>)>>
st_types == <<automatic, conventional>>
regions == <<(<<"n">>), (<<"n", "o">>), (<<"s">>), (<<"s", "u">>), (<<"c", "o">>)>>

(***************************************************************************)
(* modals.AttrAliases                                                      *)
(***************************************************************************)
\* the enum with I106 declared for conventional stations
AttrAliases_conventional_entry == <<
    [name |-> <<"I", "1", "7", "5">>, alias |-> <<"r", "a", "i", "n">>, freq |-> <<"h">>, st_type |-> automatic],
    [name |-> <<"I", "1", "0", "6">>, alias |-> <<"P", "_", "m", "e", "a", "n">>, freq |-> <<"h">>, st_type |-> conventional],
    [name |-> <<"I", "6", "1", "5">>, alias |-> <<"P", "_", "m", "a", "x">>, freq |-> <<"h">>, st_type |-> automatic],
    [name |-> <<"I", "6", "1", "6">>, alias |-> <<"P", "_", "m", "i", "n">>, freq |-> <<"h">>, st_type |-> automatic],
    [name |-> <<"I", "1", "0", "1">>, alias |-> <<"T", "_", "m", "e", "a", "n">>, freq |-> <<"h">>, st_type |-> automatic],
    [name |-> <<"I", "6", "1", "1">>, alias |-> <<"T", "_", "m", "a", "x">>, freq |-> <<"h">>, st_type |-> automatic],
    [name |-> <<"I", "6", "1", "2">>, alias |-> <<"T", "_", "m", "i", "n">>, freq |-> <<"h">>, st_type |-> automatic],
    [name |-> <<"I", "1", "3", "3">>, alias |-> <<"R", "_", "s">>, freq |-> <<"h">>, st_type |-> automatic],
    [name |-> <<"I", "1", "0", "5">>, alias |-> <<"R", "H", "_", "m", "e", "a", "n">>, freq |-> <<"h">>, st_type |-> automatic],
    [name |-> <<"I", "6", "1", "7">>, alias |-> <<"R", "H", "_", "m", "a", "x">>, freq |-> <<"h">>, st_type |-> automatic],
    [name |-> <<"I", "6", "1", "8">>, alias |-> <<"R", "H", "_", "m", "i", "n">>, freq |-> <<"h">>, st_type |-> automatic],
    [name |-> <<"I", "1", "1", "1">>, alias |-> <<"U", "_", "m", "e", "a", "n">>, freq |-> <<"h">>, st_type |-> automatic],
    [name |-> <<"I", "6", "0", "8">>, alias |-> <<"U", "_", "m", "a", "x">>, freq |-> <<"h">>, st_type |-> automatic],
    [name |-> <<"I", "0", "0", "6">>, alias |-> <<"r", "a", "i", "n">>, freq |-> <<"d">>, st_type |-> automatic],
    [name |-> <<"I", "1", "0", "9">>, alias |-> <<"P", "_", "m", "e", "a", "n">>, freq |-> <<"d">>, st_type |-> automatic],
    [name |-> <<"I", "1", "0", "4">>, alias |-> <<"T", "_", "m", "e", "a", "n">>, freq |-> <<"d">>, st_type |-> automatic],
    [name |-> <<"I", "0", "0", "7">>, alias |-> <<"T", "_", "m", "a", "x">>, freq |-> <<"d">>, st_type |-> automatic],
    [name |-> <<"I", "0", "0", "8">>, alias |-> <<"T", "_", "m", "i", "n">>, freq |-> <<"d">>, st_type |-> automatic],
    [name |-> <<"I", "1", "2", "0">>, alias |-> <<"R", "H", "_", "m", "e", "a", "n">>, freq |-> <<"d">>, st_type |-> automatic],
    [name |-> <<"I", "2", "5", "6">>, alias |-> <<"R", "H", "_", "m", "i", "n">>, freq |-> <<"d">>, st_type |-> automatic],
    [name |-> <<"I", "0", "0", "9">>, alias |-> <<"U", "_", "m", "e", "a", "n">>, freq |-> <<"d">>, st_type |-> automatic],
    [name |-> <<"I", "6", "2", "1">>, alias |-> <<"U", "_", "m", "a", "x">>, freq |-> <<"d">>, st_type |-> automatic],
    [name |-> <<"I", "2", "3", "0">>, alias |-> <<"d", "a", "y", "s", "_", "r", "a", "i", "n", "i", "n", "g">>, freq |-> <<"m">>, st_type |-> automatic],
    [name |-> <<"I", "2", "0", "9">>, alias |-> <<"r", "a", "i", "n">>, freq |-> <<"m">>, st_type |-> automatic],
    [name |-> <<"I", "2", "1", "9">>, alias |-> <<"P", "_", "m", "e", "a", "n">>, freq |-> <<"m">>, st_type |-> automatic],
    [name |-> <<"I", "2", "2", "0">>, alias |-> <<"T", "_", "m", "e", "a", "n">>, freq |-> <<"m">>, st_type |-> automatic],
    [name |-> <<"I", "2", "1", "8">>, alias |-> <<"U", "_", "m", "e", "a", "n">>, freq |-> <<"m">>, st_type |-> automatic],
    [name |-> <<"I", "2", "2", "1">>, alias |-> <<"U", "_", "m", "a", "x">>, freq |-> <<"m">>, st_type |-> automatic]
>>

\* the members of the enum in definition order: name and value (alias, freq, st_type)
AttrAliases == <<
    [name |-> <<"I", "1", "7", "5">>, alias |-> <<"r", "a", "i", "n">>, freq |-> <<"h">>, st_type |-> automatic],
    [name |-> <<"I", "1", "0", "6">>, alias |-> <<"P", "_", "m", "e", "a", "n">>, freq |-> <<"h">>, st_type |-> automatic],
    [name |-> <<"I", "6", "1", "5">>, alias |-> <<"P", "_", "m", "a", "x">>, freq |-> <<"h">>, st_type |-> automatic],
    [name |-> <<"I", "6", "1", "6">>, alias |-> <<"P", "_", "m", "i", "n">>, freq |-> <<"h">>, st_type |-> automatic],
    [name |-> <<"I", "1", "0", "1">>, alias |-> <<"T", "_", "m", "e", "a", "n">>, freq |-> <<"h">>, st_type |-> automatic],
    [name |-> <<"I", "6", "1", "1">>, alias |-> <<"T", "_", "m", "a", "x">>, freq |-> <<"h">>, st_type |-> automatic],
    [name |-> <<"I", "6", "1", "2">>, alias |-> <<"T", "_", "m", "i", "n">>, freq |-> <<"h">>, st_type |-> automatic],
    [name |-> <<"I", "1", "3", "3">>, alias |-> <<"R", "_", "s">>, freq |-> <<"h">>, st_type |-> automatic],
    [name |-> <<"I", "1", "0", "5">>, alias |-> <<"R", "H", "_", "m", "e", "a", "n">>, freq |-> <<"h">>, st_type |-> automatic],
    [name |-> <<"I", "6", "1", "7">>, alias |-> <<"R", "H", "_", "m", "a", "x">>, freq |-> <<"h">>, st_type |-> automatic],
    [name |-> <<"I", "6", "1", "8">>, alias |-> <<"R", "H", "_", "m", "i", "n">>, freq |-> <<"h">>, st_type |-> automatic],
    [name |-> <<"I", "1", "1", "1">>, alias |-> <<"U", "_", "m", "e", "a", "n">>, freq |-> <<"h">>, st_type |-> automatic],
    [name |-> <<"I", "6", "0", "8">>, alias |-> <<"U", "_", "m", "a", "x">>, freq |-> <<"h">>, st_type |-> automatic],
    [name |-> <<"I", "0", "0", "6">>, alias |-> <<"r", "a", "i", "n">>, freq |-> <<"d">>, st_type |-> automatic],
    [name |-> <<"I", "1", "0", "9">>, alias |-> <<"P", "_", "m", "e", "a", "n">>, freq |-> <<"d">>, st_type |-> automatic],
    [name |-> <<"I", "1", "0", "4">>, alias |-> <<"T", "_", "m", "e", "a", "n">>, freq |-> <<"d">>, st_type |-> automatic],
    [name |-> <<"I", "0", "0", "7">>, alias |-> <<"T", "_", "m", "a", "x">>, freq |-> <<"d">>, st_type |-> automatic],
    [name |-> <<"I", "0", "0", "8">>, alias |-> <<"T", "_", "m", "i", "n">>, freq |-> <<"d">>, st_type |-> automatic],
    [name |-> <<"I", "1", "2", "0">>, alias |-> <<"R", "H", "_", "m", "e", "a", "n">>, freq |-> <<"d">>, st_type |-> automatic],
    [name |-> <<"I", "2", "5", "6">>, alias |-> <<"R", "H", "_", "m", "i", "n">>, freq |-> <<"d">>, st_type |-> automatic],
    [name |-> <<"I", "0", "0", "9">>, alias |-> <<"U", "_", "m", "e", "a", "n">>, freq |-> <<"d">>, st_type |-> automatic],
    [name |-> <<"I", "6", "2", "1">>, alias |-> <<"U", "_", "m", "a", "x">>, freq |-> <<"d">>, st_type |-> automatic],
    [name |-> <<"I", "2", "3", "0">>, alias |-> <<"d", "a", "y", "s", "_", "r", "a", "i", "n", "i", "n", "g">>, freq |-> <<"m">>, st_type |-> automatic],
    [name |-> <<"I", "2", "0", "9">>, alias |-> <<"r", "a", "i", "n">>, freq |-> <<"m">>, st_type |-> automatic],
    [name |-> <<"I", "2", "1", "9">>, alias |-> <<"P", "_", "m", "e", "a", "n">>, freq |-> <<"m">>, st_type |-> automatic],
    [name |-> <<"I", "2", "2", "0">>, alias |-> <<"T", "_", "m", "e", "a", "n">>, freq |-> <<"m">>, st_type |-> automatic],
    [name |-> <<"I", "2", "1", "8">>, alias |-> <<"U", "_", "m", "e", "a", "n">>, freq |-> <<"m">>, st_type |-> automatic],
    [name |-> <<"I", "2", "2", "1">>, alias |-> <<"U", "_", "m", "a", "x">>, freq |-> <<"m">>, st_type |-> automatic]
>>

\* lookup_code_by_alias looking the alias up without regard to the frequency
lookup_code_by_alias_any_freq(alias, freq, st_type) ==
    LET hits == {i \in DOMAIN AttrAliases :
                    /\ AttrAliases[i].alias = alias
                    /\ AttrAliases[i].st_type = st_type}
    IN  IF hits = {} THEN NoneStr
        ELSE SomeStr(AttrAliases[CHOOSE i \in hits : \A j \in hits : i <= j].name)

\* AttrAliases((alias, freq, st_type)).name, None on ValueError
lookup_code_by_alias(alias, freq, st_type) ==
    LET hits == {i \in DOMAIN AttrAliases :
                    /\ AttrAliases[i].alias = alias
                    /\ AttrAliases[i].freq = freq
                    /\ AttrAliases[i].st_type = st_type}
    IN  IF hits = {} THEN NoneStr
        ELSE SomeStr(AttrAliases[CHOOSE i \in hits : \A j \in hits : i <= j].name)

\* AttrAliases[code].name, None on KeyError
lookup_alias_by_code(code) ==
    LET hits == {i \in DOMAIN AttrAliases : AttrAliases[i].name = code}
    IN  IF hits = {} THEN NoneStr
        ELSE SomeStr(AttrAliases[CHOOSE i \in hits : \A j \in hits : i <= j].name)

\* Attribute.from_dict: the record built from one JSON entry of the attribute catalog
AttributeFromDict(json) ==
    [code |-> json.CODIGO, desc |-> json.DESCRICAO, alias |-> lookup_alias_by_code(json.CODIGO)]

\* Station.from_dict: the record built from one JSON entry of the station catalog
StationFromDict(json) ==
    [code |-> json.CD_ESTACAO, city |-> json.DC_NOME, state |-> json.SG_ESTADO]

(***************************************************************************)
(* The remote service and the program state                                *)
(***************************************************************************)
VARIABLES
    attrRemote,   \* attribute catalog the service answers with, by request path
    stRemote,     \* station catalog the service answers with, by request path
    obj,          \* the BDmep instance the program holds
    op,           \* the operation that ran last
    arg,          \* its arguments
    ret,          \* how it ended: the value returned or the exception raised
    reqs,         \* the paths of the GET requests the operation issued, in order
    fault,        \* the station request the service fails on, and how
    run           \* the _parse_attrs call in progress, selector by selector

vars == <<attrRemote, stRemote, obj, op, arg, ret, reqs, fault, run>>

\* posixpath.join(a, b)
PathJoin(a, b) == a \o <<"/">> \o b

AttrStFrags == {<<"A", "3", "0", "1">>, <<"8", "3", "3", "7", "7">>}
StStFrags == {<<"T", "/", "R">>, <<"M", "/", "R">>}
AttrPaths == {PathJoin(s, upper(f)) : s \in AttrStFrags, f \in Range(frequencies)}
StPaths == {PathJoin(s, upper(r)) : s \in StStFrags, r \in Range(regions)}

\* JSON entries the service can answer with
AttrEntry(code, desc) == [CODIGO |-> code, DESCRICAO |-> desc]
StEntry(code, city, state) == [CD_ESTACAO |-> code, DC_NOME |-> city, SG_ESTADO |-> state]

I175 == <<"I", "1", "7", "5">>
I101 == <<"I", "1", "0", "1">>
I106 == <<"I", "1", "0", "6">>
I006 == <<"I", "0", "0", "6">>
I209 == <<"I", "2", "0", "9">>
I222 == <<"I", "2", "2", "2">>
CHUVA == <<"C", "H", "U", "V", "A">>
TEMP == <<"T", "E", "M", "P">>
PRESSAO == <<"P", "R", "E", "S", "S", "A", "O">>

A713 == <<"A", "7", "1", "3">>
A701 == <<"A", "7", "0", "1">>
A771 == <<"A", "7", "7", "1">>
A001 == <<"A", "0", "0", "1">>
C083 == <<"C", "0", "8", "3">>
SOROCABA == <<"S", "O", "R", "O", "C", "A", "B", "A">>
SAO_JOSE == <<"S", "A", "O", " ", "J", "O", "S", "E">>
BRASILIA == <<"B", "R", "A", "S", "I", "L", "I", "A">>
SP == <<"S", "P">>
DF == <<"D", "F">>

\* entries of the hourly automatic attribute catalog
HourlyAttrPool == {AttrEntry(I175, CHUVA), AttrEntry(I101, TEMP), AttrEntry(I106, PRESSAO)}
\* entries of the southeast automatic station catalog; two stations share a city and state
SuStationPool == {StEntry(A713, SOROCABA, SP), StEntry(A701, SAO_JOSE, SP), StEntry(A771, SAO_JOSE, SP)}

\* the sequences of at most n distinct elements of S
InjSeqs(S, n) ==
    UNION {{s \in [1..k -> S] : \A i, j \in 1..k : s[i] = s[j] => i = j} : k \in 0..n}

\* the sequences of at most n elements of S
SeqsUpTo(S, n) == UNION {[1..k -> S] : k \in 0..n}

AttrCatalogs == InjSeqs(HourlyAttrPool, MaxAttrCatalog)
StCatalogs == InjSeqs(SuStationPool, MaxStCatalog)

\* the service's answers when the hourly automatic attribute catalog is cat
AttrService(cat) ==
    [p \in AttrPaths |->
        IF p = <<"A", "3", "0", "1", "/", "H">> THEN cat
        ELSE IF p = <<"A", "3", "0", "1", "/", "D">> THEN <<AttrEntry(I006, CHUVA)>>
        ELSE IF p = <<"A", "3", "0", "1", "/", "M">> THEN <<AttrEntry(I209, CHUVA)>>
        ELSE <<AttrEntry(I222, CHUVA)>>]

\* the service's answers when the southeast automatic station catalog is cat
StService(cat) ==
    [p \in StPaths |->
        IF p = <<"T", "/", "R", "/", "S", "U">> THEN cat
        ELSE IF p = <<"T", "/", "R", "/", "C", "O">> THEN <<StEntry(A001, BRASILIA, DF)>>
        ELSE IF p = <<"M", "/", "R", "/", "S", "U">> THEN <<StEntry(C083, SOROCABA, SP)>>
        ELSE <<>>]

NoObj == [exists |-> FALSE, freq |-> <<>>, st_type |-> <<>>, region |-> NoneStr]

(***************************************************************************)
(* BDmep                                                                   *)
(***************************************************************************)
\* x in list
InList(x, l) == \E i \in DOMAIN l : l[i] = x

\* BDmep.__init__: the instance built, or the ValueError raised
BDmep_init(freq, st_type, region) ==
    IF ~InList(lower(freq), frequencies)
    THEN Raised("ValueError", "Invalid frequency type. Expected one of: {}", <<frequencies>>)
    ELSE IF ~InList(lower(st_type), st_types)
    THEN Raised("ValueError", "Invalid station type. Expected one of: {}", <<st_types>>)
    ELSE IF ~region.isNone /\ ~InList(lower(region.str), regions)
    THEN Raised("ValueError", "Invalid region. Expected one of: {}", <<regions>>)
    ELSE Returned([exists |-> TRUE, freq |-> freq, st_type |-> st_type, region |-> region])

\* the request path of the attributes property
AttributesPath(self) ==
    LET freq_frag == upper(self.freq)
        st_frag == IF self.st_type = automatic THEN <<"A", "3", "0", "1">> ELSE <<"8", "3", "3", "7", "7">>
    IN  PathJoin(st_frag, freq_frag)

\* BDmep.attributes: one GET, one Attribute per entry of the answer
attributes(self) ==
    LET json == attrRemote[AttributesPath(self)]
    IN  [i \in DOMAIN json |-> AttributeFromDict(json[i])]

\* the request path of the stations property for one region
StationsPath(self, region) ==
    LET st_frag == IF self.st_type = automatic THEN <<"T", "/", "R">> ELSE <<"M", "/", "R">>
    IN  PathJoin(st_frag, upper(region))

\* the loop over BDmep.regions of the stations property, from region number i on
RECURSIVE StationsAllRegions(_, _)
StationsAllRegions(self, i) ==
    IF i > Len(regions) THEN <<>>
    ELSE LET json == stRemote[StationsPath(self, regions[i])]
         IN  [k \in DOMAIN json |-> StationFromDict(json[k])] \o StationsAllRegions(self, i + 1)

\* BDmep.stations: one GET per region, or one GET for the instance's region
stations(self) ==
    IF self.region.isNone THEN StationsAllRegions(self, 1)
    ELSE LET json == stRemote[StationsPath(self, self.region.str)]
         IN  [k \in DOMAIN json |-> StationFromDict(json[k])]

_attributes_has_code(self, code) ==
    LET attrs == attributes(self)
    IN  InList(code, [i \in DOMAIN attrs |-> attrs[i].code])

_stations_has_code(self, code) ==
    LET sts == stations(self)
    IN  InList(code, [i \in DOMAIN sts |-> sts[i].code])

\* the loop accepting a selector of the code form without looking it up in the catalog
RECURSIVE ParseAttrsLoop_no_catalog_check(_, _, _)
ParseAttrsLoop_no_catalog_check(self, sels, attrs) ==
    IF sels = <<>> THEN Returned(PyList(attrs))
    ELSE LET sel == Head(sels)
             code == lookup_code_by_alias(sel, self.freq, self.st_type)
         IN  IF MatchAttrCode(sel)
             THEN ParseAttrsLoop_no_catalog_check(self, Tail(sels), Append(attrs, StrItem(sel)))
             ELSE IF ~code.isNone /\ code.str # <<>>
             THEN ParseAttrsLoop_no_catalog_check(self, Tail(sels), Append(attrs, StrItem(code.str)))
             ELSE Raised("ValueError",
                         "Parameter attr_selector given doesn't correspond to any attribute.", <<>>)

\* the for loop of _parse_attrs over the selectors sels, attributes being the list built so far
RECURSIVE ParseAttrsLoop(_, _, _)
ParseAttrsLoop(self, sels, attrs) ==
    IF sels = <<>> THEN Returned(PyList(attrs))
    ELSE LET sel == Head(sels)
             code == lookup_code_by_alias(sel, self.freq, self.st_type)
         IN  IF MatchAttrCode(sel) /\ _attributes_has_code(self, sel)
             THEN ParseAttrsLoop(self, Tail(sels), Append(attrs, StrItem(sel)))
             ELSE IF ~code.isNone /\ code.str # <<>>
             THEN ParseAttrsLoop(self, Tail(sels), Append(attrs, StrItem(code.str)))
             ELSE Raised("ValueError",
                         "Parameter attr_selector given doesn't correspond to any attribute.", <<>>)

\* _parse_attrs whose "all" branch leaves out the last entry of the catalog
_parse_attrs_drop_last(self, attr_selector) ==
    IF attr_selector.all
    THEN LET attrs == attributes(self)
         IN  Returned(PyList([i \in 1..(Len(attrs) - 1) |-> StrItem(attrs[i].code)]))
    ELSE ParseAttrsLoop(self, attr_selector.list, <<>>)

\* BDmep._parse_attrs
_parse_attrs(self, attr_selector) ==
    IF attr_selector.all
    THEN LET attrs == attributes(self)
         IN  Returned(PyList([i \in DOMAIN attrs |-> StrItem(attrs[i].code)]))
    ELSE ParseAttrsLoop(self, attr_selector.list, <<>>)

\* the codes of the stations of sts whose state and city are the given ones, in order
RECURSIVE CodesOfCity(_, _, _)
CodesOfCity(sts, state, city) ==
    IF sts = <<>> THEN <<>>
    ELSE IF Head(sts).state = state /\ Head(sts).city = city
    THEN <<Head(sts).code>> \o CodesOfCity(Tail(sts), state, city)
    ELSE CodesOfCity(Tail(sts), state, city)

\* the for loop of _parse_sts over the selectors sels, stations being the list built so far
RECURSIVE ParseStsLoop(_, _, _)
ParseStsLoop(self, sels, sts) ==
    IF sels = <<>> THEN Returned(PyList(sts))
    ELSE LET sel == unidecode(Head(sels))
             match == MatchCityState(sel)
         IN  IF MatchStCode(sel) /\ _stations_has_code(self, sel)
             THEN ParseStsLoop(self, Tail(sels), Append(sts, StrItem(sel)))
             ELSE IF match.matched
             THEN ParseStsLoop(self, Tail(sels),
                      Append(sts, ListItem(CodesOfCity(stations(self),
                                                       strip(upper(match.group2)),
                                                       strip(upper(match.group1))))))
             ELSE Raised("ValueError",
                         "Parameter st_selector given doesn't correspond to any station.", <<>>)

\* what _parse_sts hands back once its loop has built the list stations: the
\* method ends after the loop without a return statement
ParseStsResult(sts) == PyNone

\* BDmep._parse_sts
_parse_sts(self, st_selector) ==
    IF st_selector.all
    THEN LET sts == stations(self)
         IN  Returned(PyList([i \in DOMAIN sts |-> StrItem(sts[i].code)]))
    ELSE LET loop == ParseStsLoop(self, st_selector.list, <<>>)
         IN  IF loop.kind = "raise" THEN loop ELSE Returned(ParseStsResult(loop.value.items))

\* decimal[dec] of prepare_payload, None when dec is no key of the dict
DecimalMarker(dec) ==
    IF dec = <<".">> THEN SomeStr(<<"P">>)
    ELSE IF dec = <<",">> THEN SomeStr(<<"V">>)
    ELSE NoneStr

\* st_types[self.st_type] of prepare_payload, None when it is no key of the dict
StationTypeCode(st_type) ==
    IF st_type = automatic THEN SomeStr(<<"T">>)
    ELSE IF st_type = conventional THEN SomeStr(<<"M">>)
    ELSE NoneStr

\* BDmep.prepare_payload
prepare_payload(self, email, st_selector, attr_selector, dec) ==
    LET attrs == _parse_attrs(self, attr_selector)
        sts == _parse_sts(self, st_selector)
    IN  IF attrs.kind = "raise" THEN attrs
        ELSE IF sts.kind = "raise" THEN sts
        ELSE IF StationTypeCode(self.st_type).isNone THEN Raised("KeyError", "{}", <<self.st_type>>)
        ELSE IF DecimalMarker(dec).isNone THEN Raised("KeyError", "{}", <<dec>>)
        ELSE Returned([email |-> email,
                       tipo_dados |-> upper(self.freq),
                       tipo_estacao |-> StationTypeCode(self.st_type).str,
                       variaveis |-> attrs.value,
                       estacoes |-> sts.value,
                       data_inicio |-> <<>>,
                       data_fim |-> <<>>,
                       tipo_pontuacao |-> DecimalMarker(dec).str])

(***************************************************************************)
(* Requests and failures                                                   *)
(***************************************************************************)
\* no request fails
NoFault == [path |-> <<>>, kind |-> "none"]

\* no _parse_attrs call is in progress
Idle == [pc |-> "idle", rest |-> <<>>, attrs |-> <<>>, atomic |-> {}]

\* how the service answers the GET of a station path: "ok" with the catalog, or
\* the fault: "transport" (no response), or a response with an error status whose
\* body is no JSON ("status_text"), a JSON object ("status_object") or an empty
\* JSON list ("status_list")
Response(path) ==
    IF fault.kind # "none" /\ fault.path = path THEN [kind |-> fault.kind, json |-> <<>>]
    ELSE [kind |-> "ok", json |-> stRemote[path]]

\* StationsLoopFetch putting each region's stations in front of the list built so far
RECURSIVE StationsLoopFetch_prepend(_, _, _, _)
StationsLoopFetch_prepend(self, i, sts, log) ==
    IF i > Len(regions) THEN [outcome |-> Returned(sts), reqs |-> log]
    ELSE LET path == StationsPath(self, regions[i])
             r == Response(path)
         IN  IF r.kind = "transport"
             THEN [outcome |-> Raised("ConnectionError", "", <<>>), reqs |-> Append(log, path)]
             ELSE IF r.kind # "ok"
             THEN [outcome |-> Raised("HTTPError", "", <<>>), reqs |-> Append(log, path)]
             ELSE StationsLoopFetch_prepend(self, i + 1,
                                    [k \in DOMAIN r.json |-> StationFromDict(r.json[k])] \o sts,
                                    Append(log, path))

\* the loop over BDmep.regions of the stations property from region number i on,
\* sts being the list built and log the requests issued so far
RECURSIVE StationsLoopFetch(_, _, _, _)
StationsLoopFetch(self, i, sts, log) ==
    IF i > Len(regions) THEN [outcome |-> Returned(sts), reqs |-> log]
    ELSE LET path == StationsPath(self, regions[i])
             r == Response(path)
         IN  IF r.kind = "transport"
             THEN [outcome |-> Raised("ConnectionError", "", <<>>), reqs |-> Append(log, path)]
             ELSE IF r.kind # "ok"
             THEN [outcome |-> Raised("HTTPError", "", <<>>), reqs |-> Append(log, path)]
             ELSE StationsLoopFetch(self, i + 1,
                                    sts \o [k \in DOMAIN r.json |-> StationFromDict(r.json[k])],
                                    Append(log, path))

\* BDmep.stations with the requests it issues: the loop calls raise_for_status,
\* the request for the instance's own region does not
StationsFetch(self) ==
    IF self.region.isNone THEN StationsLoopFetch(self, 1, <<>>, <<>>)
    ELSE LET path == StationsPath(self, self.region.str)
             r == Response(path)
         IN  [reqs |-> <<path>>,
              outcome |->
                 IF r.kind = "transport" THEN Raised("ConnectionError", "", <<>>)
                 ELSE IF r.kind = "status_text" THEN Raised("JSONDecodeError", "", <<>>)
                 ELSE IF r.kind = "status_object" THEN Raised("TypeError", "", <<>>)
                 ELSE Returned([k \in DOMAIN r.json |-> StationFromDict(r.json[k])])]

\* the requests of the for loop of _parse_attrs: one per selector of the code form,
\* up to the selector that raises
RECURSIVE ParseAttrsLoopRequests(_, _)
ParseAttrsLoopRequests(self, sels) ==
    IF sels = <<>> THEN <<>>
    ELSE (IF MatchAttrCode(Head(sels)) THEN <<AttributesPath(self)>> ELSE <<>>)
         \o (IF ParseAttrsLoop(self, <<Head(sels)>>, <<>>).kind = "raise" THEN <<>>
             ELSE ParseAttrsLoopRequests(self, Tail(sels)))

\* the requests of _parse_attrs
ParseAttrsRequests(self, attr_selector) ==
    IF attr_selector.all THEN <<AttributesPath(self)>>
    ELSE ParseAttrsLoopRequests(self, attr_selector.list)

\* the requests of one read of the stations property of a healthy service
StationsRequests(self) ==
    IF self.region.isNone THEN [i \in DOMAIN regions |-> StationsPath(self, regions[i])]
    ELSE <<StationsPath(self, self.region.str)>>

\* the requests of the for loop of _parse_sts: the stations property is read for a
\* selector of the code form, and once more when the selector has the city and state form
RECURSIVE ParseStsLoopRequests(_, _)
ParseStsLoopRequests(self, sels) ==
    IF sels = <<>> THEN <<>>
    ELSE LET sel == unidecode(Head(sels))
             byCode == MatchStCode(sel)
             byCity == ~(byCode /\ _stations_has_code(self, sel)) /\ MatchCityState(sel).matched
         IN  (IF byCode THEN StationsRequests(self) ELSE <<>>)
             \o (IF byCity THEN StationsRequests(self) ELSE <<>>)
             \o (IF ParseStsLoop(self, <<Head(sels)>>, <<>>).kind = "raise" THEN <<>>
                 ELSE ParseStsLoopRequests(self, Tail(sels)))

\* the requests of _parse_sts
ParseStsRequests(self, st_selector) ==
    IF st_selector.all THEN StationsRequests(self)
    ELSE ParseStsLoopRequests(self, st_selector.list)

(***************************************************************************)
(* api.available_stations                                                  *)
(***************************************************************************)
\* the regions list of available_stations
api_regions == <<(<<"N">>), (<<"N", "O">>), (<<"S">>), (<<"S", "U">>), (<<"C", "O">>)>>

\* the value of the st_types dict of available_stations, with its slashes stripped by urljoin
ApiStFrag(st_type) == IF st_type = automatic THEN <<"T", "/", "R">> ELSE <<"M", "/", "R">>

\* a JSON object answered in place of a catalog
ErrorObject == [message |-> "error"]

\* the answer to the GET of a path; unknown is how the service answers a path it does not serve
ResponseOr(path, unknown) ==
    IF fault.kind # "none" /\ fault.path = path THEN [kind |-> fault.kind, json |-> <<>>]
    ELSE IF path \in DOMAIN stRemote THEN [kind |-> "ok", json |-> stRemote[path]]
    ELSE [kind |-> unknown, json |-> <<>>]

\* requests.get(url).json() of available_stations
ApiGetJson(path, unknown) ==
    LET r == ResponseOr(path, unknown)
    IN  IF r.kind = "transport" THEN Raised("ConnectionError", "", <<>>)
        ELSE IF r.kind = "status_text" THEN Raised("JSONDecodeError", "", <<>>)
        ELSE IF r.kind = "status_object" THEN Returned(ErrorObject)
        ELSE Returned(r.json)

\* the loop of available_stations over its regions from region number i on
RECURSIVE ApiAllRegions(_, _, _, _, _)
ApiAllRegions(st_type, i, sts, log, unknown) ==
    IF i > Len(api_regions) THEN [outcome |-> Returned(sts), reqs |-> log]
    ELSE LET path == PathJoin(ApiStFrag(st_type), api_regions[i])
             r == ApiGetJson(path, unknown)
         IN  IF r.kind = "raise" THEN [outcome |-> r, reqs |-> Append(log, path)]
             ELSE IF r.value = ErrorObject
             THEN ApiAllRegions(st_type, i + 1, sts \o <<"message">>, Append(log, path), unknown)
             ELSE ApiAllRegions(st_type, i + 1, sts \o r.value, Append(log, path), unknown)

\* available_stations(st_type, region) of api.py, region being None when omitted
available_stations(st_type, region, unknown) ==
    IF ~InList(lower(st_type), st_types)
    THEN [outcome |-> Raised("ValueError", "Invalid station type. Expected one of: {}", <<st_types>>), reqs |-> <<>>]
    ELSE IF region.isNone
    THEN [outcome |-> Raised("AttributeError", "'NoneType' object has no attribute 'upper'", <<>>), reqs |-> <<>>]
    ELSE IF ~InList(upper(region.str), api_regions)
    THEN [outcome |-> Raised("ValueError", "Invalid region. Expected one of: {}", <<api_regions>>), reqs |-> <<>>]
    ELSE IF ~InList(st_type, st_types)
    THEN [outcome |-> Raised("KeyError", "{}", <<st_type>>), reqs |-> <<>>]
    ELSE IF region.isNone THEN ApiAllRegions(st_type, 1, <<>>, <<>>, unknown)
    ELSE LET path == PathJoin(ApiStFrag(st_type), region.str)
         IN  [outcome |-> ApiGetJson(path, unknown), reqs |-> <<path>>]

(***************************************************************************)
(* Inputs                                                                  *)
(***************************************************************************)
FreqInputs == {<<"h">>, <<"d">>, <<"m">>, <<"H">>, <<"x">>}
StTypeInputs == {automatic, conventional, <<"A", "u", "t", "o", "m", "a", "t", "i", "c">>, <<"m", "a", "n", "u", "a", "l">>}
RegionInputs == {NoneStr, SomeStr(<<"s", "u">>), SomeStr(<<"S", "U">>), SomeStr(<<"x", "x">>)}

rain == <<"r", "a", "i", "n">>
T_mean == <<"T", "_", "m", "e", "a", "n">>
nope == <<"n", "o", "p", "e">>
i175 == <<"i", "1", "7", "5">>
a713 == <<"a", "7", "1", "3">>
Sorocaba_SP == <<"S", "o", "r", "o", "c", "a", "b", "a", " ", "S", "P">>
SaoJose_SP_accented == <<"S", "a~", "o", " ", "J", "o", "s", "e'", "-", "S", "P">>
SaoJose_SP_ascii == <<"S", "a", "o", " ", "J", "o", "s", "e", "-", "S", "P">>
Recife_PE == <<"R", "e", "c", "i", "f", "e", " ", "P", "E">>
FiveDigits == <<"1", "2", "3", "4", "5">>
Email == <<"a", "@", "b">>

\* every alias name of the table
AliasNames == {AttrAliases[i].alias : i \in DOMAIN AttrAliases}

\* attribute selectors: a code in both cases, an alias, a description, a stranger
AttrSelectorPool == {I175, i175, rain, CHUVA, nope}
AttrSelectors ==
    {AllSelector}
        \cup {ListSelector(l) : l \in SeqsUpTo(AttrSelectorPool, MaxSelectors)}
        \cup {ListSelector(<<a>>) : a \in AliasNames}

\* station selectors: a code in both cases, city and state with and without
\* diacritics, a city of no station, a string of neither form
StSelectorPool == {A713, a713, Sorocaba_SP, SaoJose_SP_accented, Recife_PE}
StSelectors ==
    {AllSelector}
        \cup {ListSelector(l) : l \in SeqsUpTo(StSelectorPool, MaxSelectors)}
        \cup {ListSelector(<<FiveDigits>>), ListSelector(<<SaoJose_SP_ascii>>)}

PayloadAttrSelectors == {AllSelector, ListSelector(<<rain, T_mean>>), ListSelector(<<I175>>), ListSelector(<<nope>>)}
PayloadStSelectors == {AllSelector, ListSelector(<<A713>>), ListSelector(<<Sorocaba_SP>>), ListSelector(<<FiveDigits>>)}
PayloadStCatalogs == {<<>>, <<StEntry(A713, SOROCABA, SP)>>, <<StEntry(A701, SAO_JOSE, SP), StEntry(A713, SOROCABA, SP)>>}
DecInputs == {<<".">>, <<",">>, <<";">>}

(***************************************************************************)
(* Operations                                                              *)
(***************************************************************************)
\* obj = BDmep(freq, st_type, region); a raise leaves the earlier instance in place
Construct(freq, st_type, region) ==
    LET r == BDmep_init(freq, st_type, region)
    IN  /\ op' = "__init__"
        /\ arg' = [freq |-> freq, st_type |-> st_type, region |-> region]
        /\ ret' = r
        /\ obj' = IF r.kind = "return" THEN r.value ELSE obj
        /\ reqs' = <<>>
        /\ UNCHANGED <<attrRemote, stRemote, fault, run>>

\* obj.attributes
GetAttributes ==
    /\ obj.exists
    /\ op' = "attributes"
    /\ arg' = <<>>
    /\ ret' = Returned(attributes(obj))
    /\ reqs' = <<AttributesPath(obj)>>
    /\ UNCHANGED <<attrRemote, stRemote, obj, fault, run>>

\* obj.stations
GetStations ==
    /\ obj.exists
    /\ op' = "stations"
    /\ arg' = <<>>
    /\ ret' = StationsFetch(obj).outcome
    /\ reqs' = StationsFetch(obj).reqs
    /\ UNCHANGED <<attrRemote, stRemote, obj, fault, run>>

\* obj._parse_attrs(attr_selector)
ParseAttrs(attr_selector) ==
    /\ obj.exists
    /\ op' = "_parse_attrs"
    /\ arg' = [attr_selector |-> attr_selector]
    /\ ret' = _parse_attrs(obj, attr_selector)
    /\ reqs' = ParseAttrsRequests(obj, attr_selector)
    /\ UNCHANGED <<attrRemote, stRemote, obj, fault, run>>

\* obj._parse_sts(st_selector)
ParseSts(st_selector) ==
    /\ obj.exists
    /\ op' = "_parse_sts"
    /\ arg' = [st_selector |-> st_selector]
    /\ ret' = _parse_sts(obj, st_selector)
    /\ reqs' = ParseStsRequests(obj, st_selector)
    /\ UNCHANGED <<attrRemote, stRemote, obj, fault, run>>

\* obj.prepare_payload(email, st_selector, attr_selector, dec)
PreparePayload(email, st_selector, attr_selector, dec) ==
    /\ obj.exists
    /\ op' = "prepare_payload"
    /\ arg' = [email |-> email, st_selector |-> st_selector, attr_selector |-> attr_selector, dec |-> dec]
    /\ ret' = prepare_payload(obj, email, st_selector, attr_selector, dec)
    /\ reqs' = ParseAttrsRequests(obj, attr_selector)
                \o (IF _parse_attrs(obj, attr_selector).kind = "raise" THEN <<>>
                    ELSE ParseStsRequests(obj, st_selector))
    /\ UNCHANGED <<attrRemote, stRemote, obj, fault, run>>

\* available_stations(st_type, region) of api.py
AvailableStations(st_type, region, unknown) ==
    /\ op' = "available_stations"
    /\ arg' = [st_type |-> st_type, region |-> region]
    /\ ret' = available_stations(st_type, region, unknown).outcome
    /\ reqs' = available_stations(st_type, region, unknown).reqs
    /\ UNCHANGED <<attrRemote, stRemote, obj, fault, run>>

\* obj._parse_attrs(attr_selector) with a selector list, up to its for loop; atomic
\* records what the call gives against the catalog of each state the service is in
\* while the call runs
BeginParseAttrs(attr_selector) ==
    /\ obj.exists
    /\ run.pc # "loop"
    /\ ~attr_selector.all
    /\ attr_selector.list # <<>>
    /\ op' = "_parse_attrs"
    /\ arg' = [attr_selector |-> attr_selector]
    /\ ret' = Returned(PyNone)
    /\ reqs' = <<>>
    /\ run' = [pc |-> "loop", rest |-> attr_selector.list, attrs |-> <<>>,
               atomic |-> {_parse_attrs(obj, attr_selector)}]
    /\ UNCHANGED <<attrRemote, stRemote, obj, fault>>

\* one iteration of the for loop of _parse_attrs; the call ends with a raise or
\* after the last selector
StepParseAttrs ==
    /\ run.pc = "loop"
    /\ LET sel == Head(run.rest)
           r == ParseAttrsLoop(obj, <<sel>>, run.attrs)
           done == r.kind = "raise" \/ Tail(run.rest) = <<>>
       IN  /\ reqs' = reqs \o (IF MatchAttrCode(sel) THEN <<AttributesPath(obj)>> ELSE <<>>)
           /\ ret' = IF done THEN r ELSE ret
           /\ run' = IF done THEN [run EXCEPT !.pc = "done", !.rest = <<>>, !.attrs = <<>>]
                     ELSE [run EXCEPT !.rest = Tail(@), !.attrs = r.value.items]
    /\ UNCHANGED <<attrRemote, stRemote, obj, op, arg, fault>>

\* the service replaces the hourly attribute catalog of automatic stations by cat
RemoteUpdate(cat) ==
    /\ attrRemote # AttrService(cat)
    /\ attrRemote' = AttrService(cat)
    /\ UNCHANGED <<stRemote, obj, op, arg, ret, reqs, fault>>
    /\ run' = IF run.pc = "loop"
              THEN [run EXCEPT !.atomic = @ \cup {(_parse_attrs(obj, arg.attr_selector))'}]
              ELSE run

NoCall == /\ obj = NoObj
          /\ op = "none"
          /\ arg = <<>>
          /\ ret = Returned(PyNone)
          /\ reqs = <<>>
          /\ run = Idle

\* the service answers every request
Healthy == fault = NoFault

(***************************************************************************)
(* Specifications                                                          *)
(***************************************************************************)
\* the program building payloads
Init ==
    /\ attrRemote \in {AttrService(c) : c \in InjSeqs(HourlyAttrPool, 1)}
    /\ stRemote \in {StService(c) : c \in PayloadStCatalogs}
    /\ NoCall
    /\ Healthy

ConstructAny ==
    \E f \in {<<"h">>, <<"H">>, <<"x">>}, s \in StTypeInputs, r \in {NoneStr, SomeStr(<<"s", "u">>), SomeStr(<<"x", "x">>)} :
        Construct(f, s, r)

PreparePayloadAny ==
    \E a \in PayloadAttrSelectors, s \in PayloadStSelectors, d \in DecInputs :
        PreparePayload(Email, s, a, d)

Next == ConstructAny \/ PreparePayloadAny

Spec == Init /\ [][Next]_vars

\* the program resolving attribute selectors
InitAttrs ==
    /\ attrRemote \in {AttrService(c) : c \in AttrCatalogs}
    /\ stRemote = StService(<<StEntry(A713, SOROCABA, SP)>>)
    /\ NoCall
    /\ Healthy

ConstructNoRegion == \E f \in FreqInputs, s \in StTypeInputs : Construct(f, s, NoneStr)

ParseAttrsAny == \E a \in AttrSelectors : ParseAttrs(a)

NextAttrs == ConstructNoRegion \/ GetAttributes \/ ParseAttrsAny

SpecAttrs == InitAttrs /\ [][NextAttrs]_vars

\* the program resolving station selectors
InitSts ==
    /\ attrRemote = AttrService(<<AttrEntry(I175, CHUVA)>>)
    /\ stRemote \in {StService(c) : c \in StCatalogs}
    /\ NoCall
    /\ Healthy

ConstructHourly == \E s \in StTypeInputs, r \in RegionInputs : Construct(<<"h">>, s, r)

ParseStsAny == \E s \in StSelectors : ParseSts(s)

NextSts == ConstructHourly \/ GetStations \/ ParseStsAny

SpecSts == InitSts /\ [][NextSts]_vars

\* the program fetching station catalogs from a service that can fail
Faults ==
    {NoFault} \cup
    {[path |-> p, kind |-> k] :
        p \in {<<"T", "/", "R", "/", "S", "U">>, <<"T", "/", "R", "/", "C", "O">>, <<"M", "/", "R", "/", "S", "U">>},
        k \in {"transport", "status_text", "status_object", "status_list"}}

InitFetch ==
    /\ attrRemote = AttrService(<<AttrEntry(I175, CHUVA)>>)
    /\ stRemote \in {StService(c) : c \in InjSeqs(SuStationPool, 1)}
    /\ NoCall
    /\ fault \in Faults

ConstructFetch ==
    \E f \in {<<"h">>, <<"x">>}, s \in StTypeInputs, r \in RegionInputs : Construct(f, s, r)

AvailableStationsAny ==
    \E s \in StTypeInputs, r \in RegionInputs, u \in {"status_text", "status_object", "status_list"} :
        AvailableStations(s, r, u)

NextFetch == ConstructFetch \/ GetStations \/ AvailableStationsAny

SpecFetch == InitFetch /\ [][NextFetch]_vars

\* the program resolving attribute selectors while the service changes its catalog
SnapCatalogs == InjSeqs({AttrEntry(I175, CHUVA), AttrEntry(I101, TEMP)}, MaxAttrCatalog)
SnapSelectors == {ListSelector(l) : l \in SeqsUpTo({I175, I101, rain}, MaxSelectors)}

InitSnap ==
    /\ attrRemote \in {AttrService(c) : c \in SnapCatalogs}
    /\ stRemote = StService(<<StEntry(A713, SOROCABA, SP)>>)
    /\ NoCall
    /\ Healthy

ConstructSnap ==
    /\ run.pc # "loop"
    /\ \E s \in {automatic, conventional, <<"m", "a", "n", "u", "a", "l">>} : Construct(<<"h">>, s, NoneStr)

BeginParseAttrsAny == \E a \in SnapSelectors : BeginParseAttrs(a)

RemoteUpdateAny == \E c \in SnapCatalogs : RemoteUpdate(c)

NextSnap == ConstructSnap \/ BeginParseAttrsAny \/ StepParseAttrs \/ RemoteUpdateAny

SpecSnap == InitSnap /\ [][NextSnap]_vars

(***************************************************************************)
(* Properties                                                              *)
(***************************************************************************)
\* the attribute catalog the service answers the instance with
FetchedAttrCatalog == attrRemote[AttributesPath(obj)]
FetchedAttrCodes == {FetchedAttrCatalog[i].CODIGO : i \in DOMAIN FetchedAttrCatalog}

\* the station catalog the service answers the instance with
FetchedStations == stations(obj)
FetchedStCodes == {FetchedStations[i].code : i \in DOMAIN FetchedStations}

\* a whole string of the form I + 3 digits, in either case
IsAttrCodeForm(sel) == Len(sel) = 4 /\ MatchAttrCode(sel)
\* a whole string of the form letter + 3 digits, in either case
IsStCodeForm(sel) == Len(sel) = 4 /\ MatchStCode(sel)

\* the entries of the alias table for the alias under the instance's frequency and station type automatic
AliasEntries(alias) ==
    {k \in DOMAIN AttrAliases :
        /\ AttrAliases[k].alias = alias
        /\ AttrAliases[k].freq = obj.freq
        /\ AttrAliases[k].st_type = automatic}

\* the selector list of the last _parse_attrs call, and of the last _parse_sts call
AttrList == arg.attr_selector.list
StList == arg.st_selector.list

ParsedAttrList == op = "_parse_attrs" /\ ~arg.attr_selector.all /\ AttrList # <<>>
ParsedStList == op = "_parse_sts" /\ ~arg.st_selector.all /\ StList # <<>>

\* C1: a payload built under hourly/automatic from station selectors ["A713"]
\* (A713 in the station catalog) and attribute selectors ["rain", "T_mean"] has
\* variaveis = ["I175", "I101"] and estacoes = ["A713"].
C1_PayloadRoundTrip ==
    ( /\ op = "prepare_payload"
      /\ obj.freq = <<"h">>
      /\ obj.st_type = automatic
      /\ arg.st_selector = ListSelector(<<A713>>)
      /\ arg.attr_selector = ListSelector(<<rain, T_mean>>)
      /\ arg.dec = <<".">>
      /\ A713 \in FetchedStCodes )
    => /\ ret.kind = "return"
       /\ ret.value.variaveis = PyList(<<StrItem(I175), StrItem(I101)>>)
       /\ ret.value.estacoes = PyList(<<StrItem(A713)>>)

\* C2: when every selector of the list has the form I + 3 digits in either case
\* and its upper-case form is a code of the fetched attribute catalog,
\* _parse_attrs returns the upper-case codes, one per selector.
C2_AttrCodeAnyCase ==
    ( /\ ParsedAttrList
      /\ \A i \in DOMAIN AttrList :
            IsAttrCodeForm(AttrList[i]) /\ upper(AttrList[i]) \in FetchedAttrCodes )
    => ret = Returned(PyList([i \in DOMAIN AttrList |-> StrItem(upper(AttrList[i]))]))

\* C3: when every selector of the list is an alias of the table for the
\* instance's frequency under station type automatic, _parse_attrs returns the
\* codes the table maps them to; "rain" gives I175 under hourly and I209 under monthly.
C3_AliasResolves ==
    ( /\ ParsedAttrList
      /\ obj.st_type = automatic
      /\ \A i \in DOMAIN AttrList : AliasEntries(AttrList[i]) # {} )
    => /\ ret.kind = "return"
       /\ ret.value.tag = "list"
       /\ Len(ret.value.items) = Len(AttrList)
       /\ \A i \in DOMAIN AttrList : \A k \in AliasEntries(AttrList[i]) :
             ret.value.items[i] = StrItem(AttrAliases[k].name)
       /\ \A i \in DOMAIN AttrList :
             /\ (AttrList[i] = rain /\ obj.freq = <<"h">>) => ret.value.items[i] = StrItem(I175)
             /\ (AttrList[i] = rain /\ obj.freq = <<"m">>) => ret.value.items[i] = StrItem(I209)

\* an alias was resolved under the monthly frequency
C3_Witness ==
    /\ ParsedAttrList
    /\ obj.st_type = automatic
    /\ obj.freq = <<"m">>
    /\ AttrList = <<rain>>
    /\ ret = Returned(PyList(<<StrItem(I209)>>))

\* C4: _parse_attrs("all") returns a list as long as the fetched attribute
\* catalog whose i-th element is the code of the i-th catalog entry.
C4_AllAttrsInCatalogOrder ==
    (op = "_parse_attrs" /\ arg.attr_selector.all)
    => /\ ret.kind = "return"
       /\ ret.value.tag = "list"
       /\ Len(ret.value.items) = Len(FetchedAttrCatalog)
       /\ \A i \in DOMAIN FetchedAttrCatalog :
             ret.value.items[i] = StrItem(FetchedAttrCatalog[i].CODIGO)

\* "all" was resolved against a catalog of two entries
C4_Witness ==
    /\ op = "_parse_attrs"
    /\ arg.attr_selector.all
    /\ Len(FetchedAttrCatalog) = 2
    /\ ret.kind = "return"
    /\ Len(ret.value.items) = 2

\* the selector is no catalog code, no alias for the instance and no catalog description
Unresolvable(sel) ==
    /\ sel \notin FetchedAttrCodes
    /\ upper(sel) \notin FetchedAttrCodes
    /\ lookup_code_by_alias(sel, lower(obj.freq), lower(obj.st_type)).isNone
    /\ \A i \in DOMAIN FetchedAttrCatalog : lower(FetchedAttrCatalog[i].DESCRICAO) # lower(sel)

\* C5: a selector that is no catalog code, no alias and no catalog description
\* makes _parse_attrs raise an error that names that selector.
C5_UnresolvedNamesSelector ==
    ( /\ ParsedAttrList
      /\ \E i \in DOMAIN AttrList : Unresolvable(AttrList[i]) )
    => /\ ret.kind = "raise"
       /\ ret.exc = "ValueError"
       /\ \E i \in DOMAIN AttrList : Unresolvable(AttrList[i]) /\ InList(AttrList[i], ret.args)

\* C6: when every selector of the list has the form letter + 3 digits in either
\* case and its upper-case form is a code of the fetched station catalog,
\* _parse_sts returns a list that contains each of these codes in upper case.
C6_StCodeAnyCase ==
    ( /\ ParsedStList
      /\ \A i \in DOMAIN StList :
            IsStCodeForm(StList[i]) /\ upper(StList[i]) \in FetchedStCodes )
    => /\ ret.kind = "return"
       /\ ret.value.tag = "list"
       /\ \A i \in DOMAIN StList : InList(StrItem(upper(StList[i])), ret.value.items)

\* the codes, one string each, of the catalog entries a city and state selector stands for
CityStateItems(sel) ==
    LET match == MatchCityState(unidecode(sel))
        codes == CodesOfCity(FetchedStations, strip(upper(match.group2)), strip(upper(match.group1)))
    IN  [i \in DOMAIN codes |-> StrItem(codes[i])]

RECURSIVE AllCityStateItems(_)
AllCityStateItems(sels) ==
    IF sels = <<>> THEN <<>> ELSE CityStateItems(Head(sels)) \o AllCityStateItems(Tail(sels))

\* C7: when every selector of the list is <city><optional separator><state>
\* and stands for at least one station, _parse_sts returns the codes of all catalog
\* entries of that city and state, each as one code string, and it returns the
\* same for a selector with diacritics as for its ASCII form.
C7_CityStateAllCodes ==
    ( /\ ParsedStList
      /\ \A i \in DOMAIN StList :
            /\ MatchCityState(unidecode(StList[i])).matched
            /\ CityStateItems(StList[i]) # <<>> )
    => /\ ret = Returned(PyList(AllCityStateItems(StList)))
       /\ ret = _parse_sts(obj, ListSelector([i \in DOMAIN StList |-> unidecode(StList[i])]))

\* the selector has one of the two forms and stands for no entry of the station catalog
MatchesNoStation(sel) ==
    \/ IsStCodeForm(unidecode(sel)) /\ upper(unidecode(sel)) \notin FetchedStCodes
    \/ MatchCityState(unidecode(sel)).matched /\ CityStateItems(sel) = <<>>

\* C8: a station selector of one of the two forms that stands for no entry of
\* the fetched station catalog makes _parse_sts raise an error.
C8_ZeroMatchesRaise ==
    (ParsedStList /\ \E i \in DOMAIN StList : MatchesNoStation(StList[i]))
    => ret.kind = "raise"

\* the catalog entries whose description is the selector
DescribedBy(sel) == {k \in DOMAIN FetchedAttrCatalog : FetchedAttrCatalog[k].DESCRICAO = sel}

\* C9: a selector that is neither a catalog code nor an alias and equals the
\* description of a catalog entry resolves to the code of that entry, wherever
\* the entry is in the catalog.
C9_DescriptionResolves ==
    ( /\ ParsedAttrList
      /\ Len(AttrList) = 1
      /\ ~MatchAttrCode(AttrList[1])
      /\ lookup_code_by_alias(AttrList[1], lower(obj.freq), lower(obj.st_type)).isNone
      /\ DescribedBy(AttrList[1]) # {} )
    => /\ ret.kind = "return"
       /\ ret.value.tag = "list"
       /\ Len(ret.value.items) = 1
       /\ \E k \in DescribedBy(AttrList[1]) : ret.value.items[1] = StrItem(FetchedAttrCatalog[k].CODIGO)

\* C10: prepare_payload with dec "." returns tipo_pontuacao "P", with dec ","
\* returns tipo_pontuacao "V", and with any other dec raises a validation error
\* (ValueError) and returns no payload.
C10_DecimalMarker ==
    op = "prepare_payload"
    => /\ (arg.dec = <<".">> /\ ret.kind = "return") => ret.value.tipo_pontuacao = <<"P">>
       /\ (arg.dec = <<",">> /\ ret.kind = "return") => ret.value.tipo_pontuacao = <<"V">>
       /\ arg.dec \notin {<<".">>, <<",">>} => (ret.kind = "raise" /\ ret.exc = "ValueError")

\* the arguments are a frequency, a station type and a region (or none) of the class lists
ValidStType(st_type) == InList(lower(st_type), st_types)
ValidRegion(region) == region.isNone \/ InList(lower(region.str), regions)
ValidFreq(freq) == InList(lower(freq), frequencies)

\* C11: a bad frequency, station type or region is rejected with a validation
\* error (ValueError) before any request is issued, and valid arguments, the region
\* omitted included, are not rejected: by BDmep.__init__ and by available_stations.
C11_ValidationBeforeRequests ==
    /\ op = "__init__" =>
          /\ reqs = <<>>
          /\ IF ValidFreq(arg.freq) /\ ValidStType(arg.st_type) /\ ValidRegion(arg.region)
             THEN ret.kind = "return"
             ELSE ret.kind = "raise" /\ ret.exc = "ValueError"
    /\ op = "available_stations" =>
          IF ValidStType(arg.st_type) /\ ValidRegion(arg.region)
          THEN reqs # <<>>
          ELSE ret.kind = "raise" /\ ret.exc = "ValueError" /\ reqs = <<>>

\* the paths of one station type for the regions N, NO, S, SU, CO in this order
RegionPaths(frag) ==
    << frag \o <<"/", "N">>, frag \o <<"/", "N", "O">>, frag \o <<"/", "S">>,
       frag \o <<"/", "S", "U">>, frag \o <<"/", "C", "O">> >>

\* the stations of the answers to the requests from request number i on, one after another
RECURSIVE AnswersFrom(_, _)
AnswersFrom(paths, i) ==
    IF i > Len(paths) THEN <<>>
    ELSE [k \in DOMAIN stRemote[paths[i]] |-> StationFromDict(stRemote[paths[i]][k])]
         \o AnswersFrom(paths, i + 1)

RemoteErrors == {"ConnectionError", "HTTPError", "JSONDecodeError"}

\* C14: a read of the stations property one of whose requests fails raises a
\* remote error; it returns no station list.
C14_FailedFetchRaises ==
    (op = "stations" /\ fault.kind # "none" /\ InList(fault.path, reqs))
    => (ret.kind = "raise" /\ ret.exc \in RemoteErrors)

\* the station selector has neither of the two forms
InvalidStSelector(sel) ==
    ~MatchStCode(unidecode(sel)) /\ ~MatchCityState(unidecode(sel)).matched

\* C13: a resolution call over a selector list either returns the full code list,
\* one code string per resolved selector, or raises because of an unresolved or
\* invalid selector, having issued no request for the selectors after that one; it
\* returns nothing else.
C13_AllOrFirstFailure ==
    /\ ParsedAttrList =>
          IF ret.kind = "return"
          THEN /\ ret.value.tag = "list"
               /\ Len(ret.value.items) = Len(AttrList)
               /\ \A i \in DOMAIN AttrList : ~ret.value.items[i].isList
               /\ \A i \in DOMAIN AttrList : ~Unresolvable(AttrList[i])
          ELSE \E i \in DOMAIN AttrList : Unresolvable(AttrList[i]) /\ Len(reqs) <= i
    /\ ParsedStList =>
          IF ret.kind = "return"
          THEN /\ ret.value.tag = "list"
               /\ Len(ret.value.items) >= Len(StList)
               /\ \A k \in DOMAIN ret.value.items : ~ret.value.items[k].isList
               /\ \A i \in DOMAIN StList :
                     ~InvalidStSelector(StList[i]) /\ ~MatchesNoStation(StList[i])
          ELSE \E i \in DOMAIN StList :
                  /\ InvalidStSelector(StList[i]) \/ MatchesNoStation(StList[i])
                  /\ Len(reqs) <= 2 * i * Len(regions)

\* C15: in the alias table an (alias, frequency, station type) key has one code,
\* no two aliases of one frequency and station type have the same code, and
\* every entry has station type automatic, so no alias resolves under conventional.
C15_AliasTableOneToOne ==
    /\ \A i, j \in DOMAIN AttrAliases :
          ( /\ AttrAliases[i].alias = AttrAliases[j].alias
            /\ AttrAliases[i].freq = AttrAliases[j].freq
            /\ AttrAliases[i].st_type = AttrAliases[j].st_type )
          => AttrAliases[i].name = AttrAliases[j].name
    /\ \A i, j \in DOMAIN AttrAliases :
          ( /\ AttrAliases[i].name = AttrAliases[j].name
            /\ AttrAliases[i].freq = AttrAliases[j].freq
            /\ AttrAliases[i].st_type = AttrAliases[j].st_type )
          => AttrAliases[i].alias = AttrAliases[j].alias
    /\ \A i \in DOMAIN AttrAliases : AttrAliases[i].st_type = automatic
    /\ (ParsedAttrList /\ obj.st_type = conventional /\ ret.kind = "return")
       => \A i \in DOMAIN AttrList : AttrList[i] \notin AliasNames

\* an alias was resolved under the daily frequency
C15_Witness ==
    /\ ParsedAttrList
    /\ obj.st_type = automatic
    /\ obj.freq = <<"d">>
    /\ AttrList = <<rain>>
    /\ ret = Returned(PyList(<<StrItem(I006)>>))

\* the entries of the alias table for the code
CodeEntries(code) == {k \in DOMAIN AttrAliases : AttrAliases[k].name = code}

\* C16: an Attribute built from a catalog entry whose code the alias table maps
\* from alias a has alias a (I175 has "rain"), and lookup_code_by_alias of that
\* alias gives back the code; an Attribute of a code not in the table has no alias.
C16_AliasByReverseLookup ==
    op = "attributes" =>
        \A i \in DOMAIN ret.value :
            IF CodeEntries(ret.value[i].code) = {}
            THEN ret.value[i].alias.isNone
            ELSE \A k \in CodeEntries(ret.value[i].code) :
                    /\ ret.value[i].alias = SomeStr(AttrAliases[k].alias)
                    /\ lookup_code_by_alias(ret.value[i].alias.str, AttrAliases[k].freq, automatic)
                          = SomeStr(ret.value[i].code)

LowerCased(self) == [self EXCEPT !.freq = lower(@), !.st_type = lower(@)]

\* C19: an instance built with an upper- or mixed-case frequency or station type
\* requests the same catalog paths and builds the same payload, with the same
\* alias codes and station-type code, as the instance built with the lower-case form.
C19_CaseVariantsBehaveAlike ==
    obj.exists =>
        /\ AttributesPath(obj) = AttributesPath(LowerCased(obj))
        /\ StationsRequests(obj) = StationsRequests(LowerCased(obj))
        /\ op = "prepare_payload" =>
              ret = prepare_payload(LowerCased(obj), arg.email, arg.st_selector,
                                    arg.attr_selector, arg.dec)

\* C17: a _parse_attrs call over a selector list issues at most one catalog
\* request, and what it gives is what the whole call gives against the catalog of
\* one of the states the service was in while the call ran.
C17_SingleSnapshot ==
    (op = "_parse_attrs" /\ run.pc = "done") => (Len(reqs) <= 1 /\ ret \in run.atomic)

====
